---- MODULE Spec2Model ----
(* Model of the property listings coordinator component (PropertyListings):   *)
(* view-mode switching, selection, filtering and sorting of the in-memory      *)
(* collection, floating detail card placement and the add-property workflow.  *)
EXTENDS Integers, Sequences, FiniteSets, TLC

VARIABLES
    properties,               \* useState<Property[]>: the collection
    hoveredPropertyId,        \* useState<string | null>
    selectedPropertyIds,      \* useState<string[]>: the selection set
    viewMode,                 \* derived from the 'view' query parameter
    pendingView,              \* a router.push that has not been committed yet
    isAddDrawerOpen,          \* useState<boolean>
    selectedPropertyForCard,  \* useState<Property | null>: the floating card
    newPropertyCoords,        \* useState<{lat,lng} | null>
    cardPosition,             \* useState<{x,y} | null>
    filters,                  \* useState<FilterState>
    filteredProperties,       \* the useMemo value rendered by list and map
    window,                   \* window.innerWidth / window.innerHeight
    headerRef,                \* headerRef.current?.offsetHeight
    lastEvent,                \* history: the event handled last (a submit with
                              \* pre-filled coordinates is "onSubmitAtCoords")
    probe                     \* history: what a scenario started from (the selection
                              \* before a double toggle, the collection handed to
                              \* the filter engine)

vars == <<properties, hoveredPropertyId, selectedPropertyIds, viewMode, pendingView,
          isAddDrawerOpen, selectedPropertyForCard, newPropertyCoords, cardPosition,
          filters, filteredProperties, window, headerRef, lastEvent, probe>>

----------------------------------------------------------------------------
(* Nullable values: null is the empty sequence, a value v is <<v>>.          *)
Null == <<>>
Some(v) == <<v>>

(* JavaScript numbers that are not finite integers.                          *)
Num(n) == [kind |-> "num", val |-> n]
NaN == [kind |-> "nan", val |-> 0]
Infinity == [kind |-> "inf", val |-> 0]
undefined == [kind |-> "undef", val |-> 0]

(* property.area >= bound, property.area <= bound for a finite area and a    *)
(* bound that may be NaN, Infinity or undefined (comparisons then are false, *)
(* except area <= Infinity).                                                 *)
GreaterEq_Strict(area, bound) == bound.kind = "num" /\ area > bound.val
GreaterEq(area, bound) == bound.kind = "num" /\ area >= bound.val
LessEq(area, bound) == bound.kind = "inf" \/ (bound.kind = "num" /\ area <= bound.val)

----------------------------------------------------------------------------
(* Strings whose characters matter are sequences of one-character strings.   *)
DigitChars == <<"0", "1", "2", "3", "4", "5", "6", "7", "8", "9">>
UpperChars == <<"A", "B", "C", "D", "E", "F", "G", "H", "I", "J", "K", "L", "M",
                "N", "O", "P", "Q", "R", "S", "T", "U", "V", "W", "X", "Y", "Z">>
LowerChars == <<"a", "b", "c", "d", "e", "f", "g", "h", "i", "j", "k", "l", "m",
                "n", "o", "p", "q", "r", "s", "t", "u", "v", "w", "x", "y", "z">>

IsDigit(c) == \E i \in 1..10 : DigitChars[i] = c
DigitVal(c) == (CHOOSE i \in 1..10 : DigitChars[i] = c) - 1

toLowerCaseChar(c) ==
    IF \E i \in 1..26 : UpperChars[i] = c
    THEN LowerChars[CHOOSE i \in 1..26 : UpperChars[i] = c]
    ELSE c
toLowerCase(s) == [i \in 1..Len(s) |-> toLowerCaseChar(s[i])]

(* String.prototype.includes: t occurs in s as a contiguous substring.       *)
includes(s, t) == \E i \in 0..(Len(s) - Len(t)) : SubSeq(s, i + 1, i + Len(t)) = t

(* String.prototype.split on a one-character separator.                      *)
RECURSIVE split(_, _)
split(s, sep) ==
    IF \A i \in 1..Len(s) : s[i] # sep
    THEN <<s>>
    ELSE LET k == CHOOSE i \in 1..Len(s) : s[i] = sep /\ \A j \in 1..(i - 1) : s[j] # sep
         IN <<SubSeq(s, 1, k - 1)>> \o split(SubSeq(s, k + 1, Len(s)), sep)

RECURSIVE trimStart(_)
trimStart(s) == IF s # <<>> /\ Head(s) = " " THEN trimStart(Tail(s)) ELSE s
RECURSIVE trimEnd(_)
trimEnd(s) == IF s # <<>> /\ s[Len(s)] = " " THEN trimEnd(SubSeq(s, 1, Len(s) - 1)) ELSE s

(* The longest prefix of s made of decimal digits.                           *)
RECURSIVE digitPrefix(_)
digitPrefix(s) ==
    IF s # <<>> /\ IsDigit(Head(s)) THEN <<Head(s)>> \o digitPrefix(Tail(s)) ELSE <<>>

RECURSIVE digitsValue(_)
digitsValue(ds) ==
    IF ds = <<>> THEN 0 ELSE 10 * digitsValue(SubSeq(ds, 1, Len(ds) - 1)) + DigitVal(ds[Len(ds)])

(* parseInt(string): leading white space skipped, an optional sign, then the *)
(* leading decimal digits; whatever follows is ignored; no digit gives NaN.  *)
parseInt(s) ==
    LET t == trimStart(s)
        signed == t # <<>> /\ Head(t) \in {"+", "-"}
        body == IF signed THEN Tail(t) ELSE t
        ds == digitPrefix(body)
    IN IF ds = <<>> THEN NaN
       ELSE Num(IF signed /\ Head(t) = "-" THEN 0 - digitsValue(ds) ELSE digitsValue(ds))

(* Number(string) for strings over digits, letters, sign and space: the      *)
(* trimmed string must be empty (0) or an optionally signed digit string.    *)
Number(s) ==
    LET t == trimEnd(trimStart(s))
        signed == t # <<>> /\ Head(t) \in {"+", "-"}
        body == IF signed THEN Tail(t) ELSE t
    IN IF t = <<>> THEN Num(0)
       ELSE IF body # <<>> /\ \A i \in 1..Len(body) : IsDigit(body[i])
            THEN Num(IF Head(t) = "-" THEN 0 - digitsValue(body) ELSE digitsValue(body))
            ELSE NaN

Semua == <<"S", "e", "m", "u", "a">>

parseAreaRange_NoSentinel(range) ==
    IF includes(range, <<"+">>) THEN <<parseInt(range), Infinity>>
    ELSE LET parts == split(range, "-")
         IN <<Number(parts[1]), IF Len(parts) >= 2 THEN Number(parts[2]) ELSE undefined>>

parseAreaRange(range) ==
    IF range = Semua \/ range = <<>> THEN <<Num(0), Infinity>>
    ELSE IF includes(range, <<"+">>) THEN <<parseInt(range), Infinity>>
    ELSE LET parts == split(range, "-")
         IN <<Number(parts[1]), IF Len(parts) >= 2 THEN Number(parts[2]) ELSE undefined>>

----------------------------------------------------------------------------
(* The comparator handed to Array.prototype.sort, by priceSort.              *)
compareFn_Swapped(priceSort, a, b) ==
    IF priceSort = "Harga Terendah" THEN b.price - a.price ELSE a.price - b.price

compareFn(priceSort, a, b) ==
    IF priceSort = "Harga Terendah" THEN a.price - b.price ELSE b.price - a.price

(* Array.prototype.sort is stable: an element goes after the last element    *)
(* that does not compare greater than it.                                    *)
insertSorted(sorted, x, priceSort) ==
    LET notGreater == {i \in 1..Len(sorted) : compareFn(priceSort, sorted[i], x) <= 0}
        k == IF notGreater = {} THEN 0
             ELSE CHOOSE i \in notGreater : \A j \in notGreater : j <= i
    IN SubSeq(sorted, 1, k) \o <<x>> \o SubSeq(sorted, k + 1, Len(sorted))

RECURSIVE sort(_, _)
sort(s, priceSort) ==
    IF s = <<>> THEN <<>>
    ELSE insertSorted(sort(SubSeq(s, 1, Len(s) - 1), priceSort), s[Len(s)], priceSort)

sortedProperties(props, f) ==
    IF f.priceSort = "Harga Terendah" \/ f.priceSort = "Harga Tertinggi"
    THEN sort(props, f.priceSort)
    ELSE props

searchTermMatch(property, f) ==
    \/ f.searchTerm = <<>>
    \/ includes(toLowerCase(property.title), toLowerCase(f.searchTerm))
    \/ includes(toLowerCase(property.description), toLowerCase(f.searchTerm))
    \/ includes(toLowerCase(property.location), toLowerCase(f.searchTerm))

propertyTypeMatch(property, f) ==
    f.propertyType = "Semua" \/ property.type = f.propertyType

buildingAreaMatch(property, f) ==
    LET r == parseAreaRange(f.buildingArea)
    IN GreaterEq(property.buildingArea, r[1]) /\ LessEq(property.buildingArea, r[2])

landAreaMatch(property, f) ==
    LET r == parseAreaRange(f.landArea)
    IN GreaterEq(property.landArea, r[1]) /\ LessEq(property.landArea, r[2])

filterPredicate_NoLandArea(property, f) ==
    /\ searchTermMatch(property, f)
    /\ propertyTypeMatch(property, f)
    /\ buildingAreaMatch(property, f)

filterPredicate(property, f) ==
    /\ searchTermMatch(property, f)
    /\ propertyTypeMatch(property, f)
    /\ buildingAreaMatch(property, f)
    /\ landAreaMatch(property, f)

(* The value of the useMemo: sort a copy, then filter it.                    *)
filteredPropertiesMemo(props, f) ==
    LET keep(property) == filterPredicate(property, f)
    IN SelectSeq(sortedProperties(props, f), keep)

----------------------------------------------------------------------------
(* Data the model draws from.                                                *)
MaxProps == 2          \* the collection never grows beyond this many entries

Txt_Vila == <<"V", "i", "l", "a">>
Txt_Ruko == <<"R", "u", "k", "o">>
Txt_Kota == <<"K", "o", "t", "a">>
Txt_Desa == <<"D", "e", "s", "a">>
Txt_Luas == <<"L", "u", "a", "s">>

Coords == {[lat |-> 1, lng |-> 2], [lat |-> 3, lng |-> 4]}

Property(id, title, location, price, type, buildingArea, landArea, coordinates) ==
    [id |-> id, title |-> title, description |-> Txt_Luas, location |-> location,
     price |-> price, type |-> type, buildingArea |-> buildingArea,
     landArea |-> landArea, coordinates |-> coordinates]

(* The property without its id: what the form hands to onSubmit.             *)
PropertyData(title, location, price, type, buildingArea, landArea, coordinates) ==
    [title |-> title, description |-> Txt_Luas, location |-> location,
     price |-> price, type |-> type, buildingArea |-> buildingArea,
     landArea |-> landArea, coordinates |-> coordinates]

P1 == Property("1", Txt_Vila, Txt_Kota, 100, "Rumah", 100, 200, [lat |-> 1, lng |-> 2])
P101 == Property("101", Txt_Ruko, Txt_Desa, 50, "Apartemen", 99, 50, [lat |-> 3, lng |-> 4])

(* The 'properties' prop: any list of properties with pairwise distinct ids. *)
InitialCollections == {<<>>, <<P1>>, <<P101>>}

Ids(props) == {props[i].id : i \in 1..Len(props)}
Range(s) == {s[i] : i \in 1..Len(s)}

DefaultFilters ==
    [searchTerm |-> <<>>, propertyType |-> "Semua", priceSort |-> "Default",
     buildingArea |-> Semua, landArea |-> Semua]

Desc_100plus == <<"1", "0", "0", "+">>

(* Partial<FilterState> updates emitted by the header in the main model.     *)
HeaderFilterChanges ==
    { [propertyType |-> "Rumah"], [propertyType |-> "Semua"],
      [buildingArea |-> Desc_100plus, priceSort |-> "Harga Terendah"],
      [buildingArea |-> Semua, priceSort |-> "Default"] }

Viewports == {[innerWidth |-> 1000, innerHeight |-> 800]}
HeaderHeights == {64}

MouseEvent(x, y) == [domEvent |-> Some([clientX |-> x, clientY |-> y])]
NoMouseEvent == [domEvent |-> Null]
MarkerEvents == {MouseEvent(990, 790), NoMouseEvent}

MapClickEvents == {[latLng |-> Some(c)] : c \in Coords} \cup {[latLng |-> Null]}

(* AddPropertyForm: the payload carries the pre-filled coordinates when the  *)
(* drawer was opened from a map click, and coordinates the user typed        *)
(* otherwise.                                                                *)
AddPropertyForm(initialCoordinates) ==
    { PropertyData(Txt_Ruko, Txt_Kota, 75, "Apartemen", 80, 120, c) :
        c \in (IF initialCoordinates = Null THEN Coords ELSE {initialCoordinates[1]}) }

----------------------------------------------------------------------------
(* State after the first render.                                             *)
Init ==
    /\ properties \in InitialCollections
    /\ hoveredPropertyId = Null
    /\ selectedPropertyIds = <<>>
    /\ viewMode \in {"list", "map"}
    /\ pendingView = "none"
    /\ isAddDrawerOpen = FALSE
    /\ selectedPropertyForCard = Null
    /\ newPropertyCoords = Null
    /\ cardPosition = Null
    /\ filters = DefaultFilters
    /\ filteredProperties = filteredPropertiesMemo(properties, filters)
    /\ window \in Viewports
    /\ headerRef \in HeaderHeights
    /\ lastEvent = "mount"
    /\ probe = Null

(* Re-render: the memo is recomputed from the new collection and filters.    *)
Render == filteredProperties' = filteredPropertiesMemo(properties', filters')

env == <<window, headerRef>>

----------------------------------------------------------------------------
(* Handlers.                                                                 *)

setViewMode(mode) == pendingView' = mode

(* useEffect(..., [viewMode]): runs when the committed view mode changed.    *)
viewModeEffect_KeepsSelection ==
    /\ selectedPropertyForCard' = Null
    /\ UNCHANGED selectedPropertyIds

viewModeEffect ==
    /\ selectedPropertyIds' = <<>>
    /\ selectedPropertyForCard' = Null

toggle_AlwaysAppends(prev, propertyId) == Append(prev, propertyId)

toggle_Prepend(prev, propertyId) ==
    IF propertyId \in {prev[i] : i \in 1..Len(prev)}
    THEN SelectSeq(prev, LAMBDA id : id # propertyId)
    ELSE <<propertyId>> \o prev

toggle(prev, propertyId) ==
    IF propertyId \in Range(prev)
    THEN SelectSeq(prev, LAMBDA id : id # propertyId)
    ELSE Append(prev, propertyId)

togglePropertySelection(propertyId) ==
    /\ selectedPropertyIds' = toggle(selectedPropertyIds, propertyId)
    /\ UNCHANGED <<properties, hoveredPropertyId, viewMode, pendingView, isAddDrawerOpen,
                   selectedPropertyForCard, newPropertyCoords, cardPosition, filters,
                   filteredProperties, env>>

handleFilterChange_KeepsCard(newFilters) ==
    /\ filters' = [k \in DOMAIN filters |->
                     IF k \in DOMAIN newFilters THEN newFilters[k] ELSE filters[k]]
    /\ UNCHANGED <<properties, hoveredPropertyId, selectedPropertyIds, viewMode, pendingView,
                   isAddDrawerOpen, newPropertyCoords, cardPosition, env,
                   selectedPropertyForCard>>
    /\ Render

handleFilterChange_ReplacesFilters(newFilters) ==
    /\ filters' = [k \in DOMAIN filters |->
                     IF k \in DOMAIN newFilters THEN newFilters[k] ELSE DefaultFilters[k]]
    /\ selectedPropertyForCard' = Null
    /\ UNCHANGED <<properties, hoveredPropertyId, selectedPropertyIds, viewMode, pendingView,
                   isAddDrawerOpen, newPropertyCoords, cardPosition, env>>
    /\ Render

handleFilterChange_PrunesSelection(newFilters) ==
    /\ filters' = [k \in DOMAIN filters |->
                     IF k \in DOMAIN newFilters THEN newFilters[k] ELSE filters[k]]
    /\ selectedPropertyForCard' = Null
    /\ selectedPropertyIds' =
          SelectSeq(selectedPropertyIds,
                    LAMBDA id : id \in Ids(filteredPropertiesMemo(properties, filters')))
    /\ UNCHANGED <<properties, hoveredPropertyId, viewMode, pendingView,
                   isAddDrawerOpen, newPropertyCoords, cardPosition, env>>
    /\ Render

handleFilterChange(newFilters) ==
    /\ filters' = [k \in DOMAIN filters |->
                     IF k \in DOMAIN newFilters THEN newFilters[k] ELSE filters[k]]
    /\ selectedPropertyForCard' = Null
    /\ UNCHANGED <<properties, hoveredPropertyId, selectedPropertyIds, viewMode, pendingView,
                   isAddDrawerOpen, newPropertyCoords, cardPosition, env>>
    /\ Render

handleCardHover(propertyId) ==
    /\ hoveredPropertyId' = propertyId
    /\ UNCHANGED <<properties, selectedPropertyIds, viewMode, pendingView, isAddDrawerOpen,
                   selectedPropertyForCard, newPropertyCoords, cardPosition, filters,
                   filteredProperties, env>>

CARD_WIDTH == 384
CARD_HEIGHT == 300
PADDING == 16

placeCard_HeaderFirst(clickX, clickY, windowWidth, windowHeight, headerHeight) ==
    LET x0 == clickX + PADDING
        y0 == clickY + PADDING
        x1 == IF x0 < PADDING THEN PADDING ELSE x0
        x2 == IF x1 + CARD_WIDTH > windowWidth - PADDING
              THEN windowWidth - CARD_WIDTH - PADDING ELSE x1
        y1 == IF y0 < headerHeight + PADDING THEN headerHeight + PADDING ELSE y0
        y2 == IF y1 + CARD_HEIGHT > windowHeight - PADDING
              THEN windowHeight - CARD_HEIGHT - PADDING ELSE y1
    IN [x |-> x2, y |-> y2]

(* The position computed from the pointer coordinates.                       *)
placeCard(clickX, clickY, windowWidth, windowHeight, headerHeight) ==
    LET x0 == clickX + PADDING
        y0 == clickY + PADDING
        x1 == IF x0 < PADDING THEN PADDING ELSE x0
        x2 == IF x1 + CARD_WIDTH > windowWidth - PADDING
              THEN windowWidth - CARD_WIDTH - PADDING ELSE x1
        y1 == IF y0 + CARD_HEIGHT > windowHeight - PADDING
              THEN windowHeight - CARD_HEIGHT - PADDING ELSE y0
        y2 == IF y1 < headerHeight + PADDING THEN headerHeight + PADDING ELSE y1
    IN [x |-> x2, y |-> y2]

handleMarkerClick(property, event) ==
    /\ selectedPropertyForCard' = Some(property)
    /\ IF event.domEvent # Null
       THEN cardPosition' = Some(placeCard(event.domEvent[1].clientX, event.domEvent[1].clientY,
                                           window.innerWidth, window.innerHeight, headerRef))
       ELSE cardPosition' = Null
    /\ UNCHANGED <<properties, hoveredPropertyId, selectedPropertyIds, viewMode, pendingView,
                   isAddDrawerOpen, newPropertyCoords, filters, filteredProperties, env>>

handleMapClick_KeepsCard(e) ==
    /\ IF e.latLng # Null
       THEN newPropertyCoords' = Some(e.latLng[1]) /\ isAddDrawerOpen' = TRUE
       ELSE UNCHANGED <<newPropertyCoords, isAddDrawerOpen>>
    /\ UNCHANGED <<properties, hoveredPropertyId, selectedPropertyIds, viewMode, pendingView,
                   cardPosition, filters, filteredProperties, env, selectedPropertyForCard>>

handleMapClick_NoOpen(e) ==
    /\ selectedPropertyForCard' = Null
    /\ IF e.latLng # Null
       THEN newPropertyCoords' = Some(e.latLng[1]) /\ UNCHANGED isAddDrawerOpen
       ELSE UNCHANGED <<newPropertyCoords, isAddDrawerOpen>>
    /\ UNCHANGED <<properties, hoveredPropertyId, selectedPropertyIds, viewMode, pendingView,
                   cardPosition, filters, filteredProperties, env>>

handleMapClick(e) ==
    /\ selectedPropertyForCard' = Null
    /\ IF e.latLng # Null
       THEN newPropertyCoords' = Some(e.latLng[1]) /\ isAddDrawerOpen' = TRUE
       ELSE UNCHANGED <<newPropertyCoords, isAddDrawerOpen>>
    /\ UNCHANGED <<properties, hoveredPropertyId, selectedPropertyIds, viewMode, pendingView,
                   cardPosition, filters, filteredProperties, env>>

handleAddDrawerOpen_NullsOnOpen(open) ==
    /\ isAddDrawerOpen' = open
    /\ IF open THEN newPropertyCoords' = Null ELSE UNCHANGED newPropertyCoords
    /\ UNCHANGED <<properties, hoveredPropertyId, selectedPropertyIds, viewMode, pendingView,
                   selectedPropertyForCard, cardPosition, filters, filteredProperties, env>>

handleAddDrawerOpen_KeepsCoords(open) ==
    /\ isAddDrawerOpen' = open
    /\ UNCHANGED <<properties, hoveredPropertyId, selectedPropertyIds, viewMode, pendingView,
                   selectedPropertyForCard, cardPosition, filters, filteredProperties, env,
                   newPropertyCoords>>

handleAddDrawerOpen(open) ==
    /\ isAddDrawerOpen' = open
    /\ IF ~open THEN newPropertyCoords' = Null ELSE UNCHANGED newPropertyCoords
    /\ UNCHANGED <<properties, hoveredPropertyId, selectedPropertyIds, viewMode, pendingView,
                   selectedPropertyForCard, cardPosition, filters, filteredProperties, env>>

(* (properties.length + 100).toString()                                      *)
newId(props) == ToString(Len(props) + 100)

newProperty(props, newPropertyData) ==
    [k \in {"id"} \cup DOMAIN newPropertyData |->
        IF k \in DOMAIN newPropertyData THEN newPropertyData[k] ELSE newId(props)]

handleAddProperty_KeepsCoords(newPropertyData) ==
    /\ properties' = Append(properties, newProperty(properties, newPropertyData))
    /\ isAddDrawerOpen' = FALSE
    /\ UNCHANGED <<hoveredPropertyId, selectedPropertyIds, viewMode, pendingView,
                   selectedPropertyForCard, cardPosition, filters, env, newPropertyCoords>>
    /\ Render

handleAddProperty_Replaces(newPropertyData) ==
    /\ properties' = <<newProperty(properties, newPropertyData)>>
    /\ isAddDrawerOpen' = FALSE
    /\ newPropertyCoords' = Null
    /\ UNCHANGED <<hoveredPropertyId, selectedPropertyIds, viewMode, pendingView,
                   selectedPropertyForCard, cardPosition, filters, env>>
    /\ Render

handleAddProperty(newPropertyData) ==
    /\ properties' = Append(properties, newProperty(properties, newPropertyData))
    /\ isAddDrawerOpen' = FALSE
    /\ newPropertyCoords' = Null
    /\ UNCHANGED <<hoveredPropertyId, selectedPropertyIds, viewMode, pendingView,
                   selectedPropertyForCard, cardPosition, filters, env>>
    /\ Render

----------------------------------------------------------------------------
(* Events of the rendered tree.                                              *)

(* Header onViewModeChange.                                                  *)
OnViewModeChange(mode) ==
    /\ setViewMode(mode)
    /\ selectedPropertyForCard' = Null
    /\ lastEvent' = "onViewModeChange"
    /\ UNCHANGED <<properties, hoveredPropertyId, selectedPropertyIds, viewMode,
                   isAddDrawerOpen, newPropertyCoords, cardPosition, filters,
                   filteredProperties, env, probe>>

NavigationCommit_NoEffect ==
    /\ pendingView # "none"
    /\ viewMode' = pendingView
    /\ pendingView' = "none"
    /\ lastEvent' = IF pendingView # viewMode THEN "viewSwitch" ELSE "navigation"
    /\ UNCHANGED <<properties, hoveredPropertyId, isAddDrawerOpen, newPropertyCoords,
                   cardPosition, filters, filteredProperties, env, probe,
                   selectedPropertyIds, selectedPropertyForCard>>

(* The pushed URL is committed: viewMode is re-derived and the effect runs   *)
(* when it changed.                                                          *)
NavigationCommit ==
    /\ pendingView # "none"
    /\ viewMode' = pendingView
    /\ pendingView' = "none"
    /\ IF pendingView # viewMode
       THEN viewModeEffect
       ELSE UNCHANGED <<selectedPropertyIds, selectedPropertyForCard>>
    /\ lastEvent' = IF pendingView # viewMode THEN "viewSwitch" ELSE "navigation"
    /\ UNCHANGED <<properties, hoveredPropertyId, isAddDrawerOpen, newPropertyCoords,
                   cardPosition, filters, filteredProperties, env, probe>>

OnFilterChange(newFilters) ==
    /\ handleFilterChange(newFilters)
    /\ lastEvent' = "onFilterChange"
    /\ UNCHANGED probe

(* The list cards are rendered from filteredProperties and are visible in    *)
(* list view only.                                                           *)
OnSelectionChange(propertyId) ==
    /\ viewMode = "list"
    /\ propertyId \in Ids(filteredProperties)
    /\ togglePropertySelection(propertyId)
    /\ lastEvent' = "onSelectionChange"
    /\ UNCHANGED probe

OnMouseEnter(propertyId) ==
    /\ viewMode = "list"
    /\ propertyId \in Ids(filteredProperties)
    /\ handleCardHover(Some(propertyId))
    /\ lastEvent' = "onMouseEnter"
    /\ UNCHANGED probe

OnMouseLeave ==
    /\ viewMode = "list"
    /\ hoveredPropertyId # Null
    /\ handleCardHover(Null)
    /\ lastEvent' = "onMouseLeave"
    /\ UNCHANGED probe

(* The map shows markers for filteredProperties, in map view only.           *)
OnMarkerClick(property, event) ==
    /\ viewMode = "map"
    /\ property \in Range(filteredProperties)
    /\ handleMarkerClick(property, event)
    /\ lastEvent' = "onMarkerClick"
    /\ UNCHANGED probe

OnMapClick(e) ==
    /\ viewMode = "map"
    /\ handleMapClick(e)
    /\ lastEvent' = "onMapClick"
    /\ UNCHANGED probe

(* Floating card onClose.                                                    *)
OnCardClose ==
    /\ viewMode = "map"
    /\ selectedPropertyForCard # Null
    /\ selectedPropertyForCard' = Null
    /\ lastEvent' = "onClose"
    /\ UNCHANGED <<properties, hoveredPropertyId, selectedPropertyIds, viewMode, pendingView,
                   isAddDrawerOpen, newPropertyCoords, cardPosition, filters,
                   filteredProperties, env, probe>>

OnClearClick_ClearsHover ==
    /\ viewMode = "list"
    /\ Len(selectedPropertyIds) > 0
    /\ selectedPropertyIds' = <<>>
    /\ hoveredPropertyId' = Null
    /\ lastEvent' = "onClearClick"
    /\ UNCHANGED <<properties, viewMode, pendingView, isAddDrawerOpen,
                   selectedPropertyForCard, newPropertyCoords, cardPosition, filters,
                   filteredProperties, env, probe>>

(* 'Bersihkan', rendered in list view while something is selected.           *)
OnClearClick ==
    /\ viewMode = "list"
    /\ Len(selectedPropertyIds) > 0
    /\ selectedPropertyIds' = <<>>
    /\ lastEvent' = "onClearClick"
    /\ UNCHANGED <<properties, hoveredPropertyId, viewMode, pendingView, isAddDrawerOpen,
                   selectedPropertyForCard, newPropertyCoords, cardPosition, filters,
                   filteredProperties, env, probe>>

(* Header onAddPropertyClick.                                                *)
OnAddPropertyClick ==
    /\ handleAddDrawerOpen(TRUE)
    /\ lastEvent' = "onAddPropertyClick"
    /\ UNCHANGED probe

(* Drawer onOpenChange(false) and the form's onCancel, while it is open.     *)
OnDrawerDismiss ==
    /\ isAddDrawerOpen
    /\ handleAddDrawerOpen(FALSE)
    /\ lastEvent' = "onDrawerDismiss"
    /\ UNCHANGED probe

(* The form's onSubmit, while the drawer is open.                            *)
OnSubmit(newPropertyData) ==
    /\ isAddDrawerOpen
    /\ Len(properties) < MaxProps
    /\ handleAddProperty(newPropertyData)
    /\ lastEvent' = IF newPropertyCoords # Null THEN "onSubmitAtCoords" ELSE "onSubmit"
    /\ UNCHANGED probe

(* What the render hands to PropertyMap, which is mounted in both view modes *)
(* (its container is only hidden in list view).                              *)
PropertyMapProps ==
    [properties |-> filteredProperties,
     hoveredPropertyId |-> hoveredPropertyId,
     selectedPropertyIds |-> selectedPropertyIds]

(* The bar with 'Bersihkan' and 'Bandingkan' is rendered.                    *)
CompareBarShown == Len(selectedPropertyIds) > 0 /\ viewMode = "list"

Next ==
    \/ \E mode \in {"list", "map"} : OnViewModeChange(mode)
    \/ NavigationCommit
    \/ \E nf \in HeaderFilterChanges : OnFilterChange(nf)
    \/ \E id \in Ids(properties) : OnSelectionChange(id)
    \/ \E id \in Ids(properties) : OnMouseEnter(id)
    \/ OnMouseLeave
    \/ \E p \in Range(properties), ev \in MarkerEvents : OnMarkerClick(p, ev)
    \/ \E e \in MapClickEvents : OnMapClick(e)
    \/ OnCardClose
    \/ OnClearClick
    \/ OnAddPropertyClick
    \/ OnDrawerDismiss
    \/ \E d \in AddPropertyForm(newPropertyCoords) : OnSubmit(d)

Spec == Init /\ [][Next]_vars

----------------------------------------------------------------------------
(* The filter engine on its own: any small collection, every filter field    *)
(* changed through handleFilterChange.                                       *)
MaxLen == 3            \* longest collection handed to the filter engine

RECURSIVE DecimalString(_)
DecimalString(n) ==
    IF n < 10 THEN <<DigitChars[n + 1]>>
    ELSE DecimalString(n \div 10) \o <<DigitChars[(n % 10) + 1]>>

(* The range descriptors 'N+' and 'A-B'.                                     *)
PlusDesc(n) == DecimalString(n) \o <<"+">>
RangeDesc(a, b) == DecimalString(a) \o <<"-">> \o DecimalString(b)

(* price, type, buildingArea, landArea, title, location of the pool entries. *)
Pool ==
    << [price |-> 100, type |-> "Rumah", buildingArea |-> 100, landArea |-> 200,
        title |-> Txt_Vila, location |-> Txt_Kota],
       [price |-> 50, type |-> "Apartemen", buildingArea |-> 99, landArea |-> 50,
        title |-> Txt_Ruko, location |-> Txt_Desa],
       [price |-> 75, type |-> "Rumah", buildingArea |-> 101, landArea |-> 0,
        title |-> Txt_Vila, location |-> Txt_Desa],
       [price |-> 50, type |-> "Rumah", buildingArea |-> 150, landArea |-> 49,
        title |-> Txt_Desa, location |-> Txt_Kota] >>

PoolProperty(i, k) ==
    Property(ToString(i), Pool[k].title, Pool[k].location, Pool[k].price, Pool[k].type,
             Pool[k].buildingArea, Pool[k].landArea, [lat |-> 1, lng |-> 2])

(* Collections of up to MaxLen pool entries, ids "1", "2", ... by position.  *)
PoolCollections ==
    UNION { { [i \in 1..n |-> PoolProperty(i, pick[i])] : pick \in [1..n -> 1..Len(Pool)] }
            : n \in 0..MaxLen }

(* Descriptors offered for each area filter: the sentinel, 'N+', 'A-B' and,  *)
(* for the building area, one that is no range at all.                       *)
BuildingAreaPlus == {100}
BuildingAreaRanges == {<<99, 100>>}
LandAreaPlus == {50}
LandAreaRanges == {<<0, 49>>}
Desc_abc == <<"a", "b", "c">>
BuildingAreaDescs ==
    {Semua, Desc_abc} \cup {PlusDesc(n) : n \in BuildingAreaPlus}
                      \cup {RangeDesc(r[1], r[2]) : r \in BuildingAreaRanges}
LandAreaDescs ==
    {Semua} \cup {PlusDesc(n) : n \in LandAreaPlus}
            \cup {RangeDesc(r[1], r[2]) : r \in LandAreaRanges}

SearchTerms == {<<>>, <<"k", "O">>}
PropertyTypes == {"Semua", "Rumah"}
PriceSorts == {"Default", "Harga Terendah", "Harga Tertinggi"}

(* One field at a time, as the filter bar's controls emit them, and one      *)
(* two-field update.                                                         *)
FilterBarChanges ==
    {[searchTerm |-> t] : t \in SearchTerms}
    \cup {[propertyType |-> t] : t \in PropertyTypes}
    \cup {[priceSort |-> t] : t \in PriceSorts}
    \cup {[buildingArea |-> d] : d \in BuildingAreaDescs}
    \cup {[landArea |-> d] : d \in LandAreaDescs}
    \cup {[searchTerm |-> <<>>, propertyType |-> "Semua"]}

InitFilter ==
    /\ properties \in PoolCollections
    /\ hoveredPropertyId = Null
    /\ selectedPropertyIds = <<>>
    /\ viewMode = "list"
    /\ pendingView = "none"
    /\ isAddDrawerOpen = FALSE
    /\ selectedPropertyForCard = Null
    /\ newPropertyCoords = Null
    /\ cardPosition = Null
    /\ filters = DefaultFilters
    /\ filteredProperties = filteredPropertiesMemo(properties, filters)
    /\ window \in Viewports
    /\ headerRef \in HeaderHeights
    /\ lastEvent = "mount"
    /\ probe = Some([collection |-> properties])

NextFilter == \E nf \in FilterBarChanges : OnFilterChange(nf)

SpecFilter == InitFilter /\ [][NextFilter]_vars

----------------------------------------------------------------------------
(* Card placement on its own: viewports, header heights and pointer          *)
(* positions inside the viewport.                                            *)
PlaceViewports ==
    {[innerWidth |-> w, innerHeight |-> h] : w \in {320, 1000}, h \in {300, 360, 400, 800}}
PlaceHeaderHeights == {0, 64, 120}
PlaceClicks ==
    {MouseEvent(x, y) : x \in {0, 100, 310, 600, 999}, y \in {0, 50, 290, 480, 799}}
    \cup {NoMouseEvent}

InitPlace ==
    /\ properties = <<P1>>
    /\ hoveredPropertyId = Null
    /\ selectedPropertyIds = <<>>
    /\ viewMode = "map"
    /\ pendingView = "none"
    /\ isAddDrawerOpen = FALSE
    /\ selectedPropertyForCard = Null
    /\ newPropertyCoords = Null
    /\ cardPosition = Null
    /\ filters = DefaultFilters
    /\ filteredProperties = filteredPropertiesMemo(properties, filters)
    /\ window \in PlaceViewports
    /\ headerRef \in PlaceHeaderHeights
    /\ lastEvent = "mount"
    /\ probe = Null

InViewport(ev) ==
    ev.domEvent # Null =>
        /\ ev.domEvent[1].clientX < window.innerWidth
        /\ ev.domEvent[1].clientY < window.innerHeight

NextPlace ==
    \E p \in Range(properties), ev \in PlaceClicks : InViewport(ev) /\ OnMarkerClick(p, ev)

SpecPlace == InitPlace /\ [][NextPlace]_vars

----------------------------------------------------------------------------
(* Toggling the same id twice, from any selection the list view can hold.    *)
MaxToggleIds == 3      \* size of the collection whose cards are toggled

ToggleCollection == [i \in 1..MaxToggleIds |-> PoolProperty(i, 1)]

(* Sequences of pairwise distinct ids.                                       *)
Selections(ids) ==
    UNION { {s \in [1..n -> ids] : \A i, j \in 1..n : i # j => s[i] # s[j]}
            : n \in 0..Cardinality(ids) }

InitToggle ==
    /\ properties = ToggleCollection
    /\ hoveredPropertyId = Null
    /\ selectedPropertyIds \in Selections(Ids(properties))
    /\ viewMode = "list"
    /\ pendingView = "none"
    /\ isAddDrawerOpen = FALSE
    /\ selectedPropertyForCard = Null
    /\ newPropertyCoords = Null
    /\ cardPosition = Null
    /\ filters = DefaultFilters
    /\ filteredProperties = filteredPropertiesMemo(properties, filters)
    /\ window \in Viewports
    /\ headerRef \in HeaderHeights
    /\ lastEvent = "mount"
    /\ \E id \in Ids(properties) :
          probe = Some([start |-> selectedPropertyIds, id |-> id, n |-> 0])

(* The checkbox of the probed card is clicked, at most twice.                *)
OnSelectionChangeAgain ==
    /\ probe[1].n < 2
    /\ viewMode = "list"
    /\ probe[1].id \in Ids(filteredProperties)
    /\ togglePropertySelection(probe[1].id)
    /\ lastEvent' = "onSelectionChange"
    /\ probe' = Some([probe[1] EXCEPT !.n = @ + 1])

NextToggle == OnSelectionChangeAgain

SpecToggle == InitToggle /\ [][NextToggle]_vars

----------------------------------------------------------------------------
(* Properties.                                                               *)

(* C1: whenever the committed view mode changes (list->map or map->list),    *)
(* the resulting state has an empty selection set and no floating card,      *)
(* whatever the selection and card were before.                              *)
C1_ViewSwitchClears ==
    [][viewMode' # viewMode =>
          (selectedPropertyIds' = <<>> /\ selectedPropertyForCard' = Null)]_vars

(* A switch back to the map after cards were hovered in the list view.       *)
C1_Witness ==
    /\ lastEvent = "viewSwitch"
    /\ viewMode = "map"
    /\ hoveredPropertyId # Null
    /\ selectedPropertyIds = <<>>

(* C2 as stated: toggling the same id twice gives back the selection it      *)
(* started from, contents and order.                                         *)
C2_ToggleTwiceRestores ==
    (probe # Null /\ probe[1].n = 2) => selectedPropertyIds = probe[1].start

(* C2 amended: toggling the same id twice gives back the same set of ids;    *)
(* the order is the original one when the id was absent or was the last      *)
(* selected; an id selected earlier moves to the end, the other ids keeping  *)
(* their relative order.                                                     *)
C2_ToggleTwiceAmended ==
    (probe # Null /\ probe[1].n = 2) =>
        LET S == probe[1].start
            p == probe[1].id
            others == SelectSeq(S, LAMBDA id : id # p)
        IN /\ Range(selectedPropertyIds) = Range(S)
           /\ Len(selectedPropertyIds) = Len(S)
           /\ (p \notin Range(S) \/ S[Len(S)] = p) => selectedPropertyIds = S
           /\ (p \in Range(S) /\ S[Len(S)] # p) => selectedPropertyIds = others \o <<p>>

(* Two toggles of an id that was selected but not last.                      *)
C2_Witness ==
    /\ probe # Null
    /\ probe[1].n = 2
    /\ probe[1].id \in Range(probe[1].start)
    /\ probe[1].start[Len(probe[1].start)] # probe[1].id
    /\ selectedPropertyIds # probe[1].start

(* C3: a form submit appends exactly one property at the end, earlier        *)
(* entries and their order unchanged; when the drawer was opened by a map    *)
(* click at c the new property carries c; the drawer is closed and the       *)
(* pending coordinates are discarded.                                        *)
C3_SubmitAppends ==
    [][lastEvent' \in {"onSubmit", "onSubmitAtCoords"} =>
          /\ Len(properties') = Len(properties) + 1
          /\ SubSeq(properties', 1, Len(properties)) = properties
          /\ (newPropertyCoords # Null =>
                properties'[Len(properties')].coordinates = newPropertyCoords[1])
          /\ isAddDrawerOpen' = FALSE
          /\ newPropertyCoords' = Null]_vars

(* A second submit, made after a map click at (1, 2), onto a collection     *)
(* whose first entry was added at (3, 4).                                    *)
C3_Witness ==
    /\ lastEvent = "onSubmitAtCoords"
    /\ Len(properties) = 2
    /\ properties[1].id = "100"
    /\ properties[1].coordinates = [lat |-> 3, lng |-> 4]
    /\ properties[2].coordinates = [lat |-> 1, lng |-> 2]
    /\ ~isAddDrawerOpen
    /\ newPropertyCoords = Null

(* C4 as stated: identifiers of the collection stay pairwise distinct.       *)
C4_IdsStayDistinct ==
    \A i, j \in 1..Len(properties) : i # j => properties[i].id # properties[j].id

(* C5 as stated: the placed card stays inside the right and bottom edges and *)
(* below the header band.                                                    *)
C5_CardInsideViewport ==
    cardPosition # Null =>
        /\ cardPosition[1].x + CARD_WIDTH <= window.innerWidth
        /\ cardPosition[1].y + CARD_HEIGHT <= window.innerHeight
        /\ cardPosition[1].y >= headerRef

(* C5 amended: the placed card never crosses the right edge and never starts *)
(* above the header band; it stays inside the bottom edge whenever the       *)
(* viewport is at least headerHeight + 16 + 300 high, and otherwise sits at  *)
(* headerHeight + 16 and crosses the bottom edge.                            *)
C5_CardPlacementAmended ==
    cardPosition # Null =>
        /\ cardPosition[1].x + CARD_WIDTH <= window.innerWidth
        /\ cardPosition[1].y >= headerRef
        /\ (window.innerHeight >= headerRef + PADDING + CARD_HEIGHT =>
               cardPosition[1].y + CARD_HEIGHT <= window.innerHeight)
        /\ (window.innerHeight < headerRef + PADDING + CARD_HEIGHT =>
               /\ cardPosition[1].y = headerRef + PADDING
               /\ cardPosition[1].y + CARD_HEIGHT > window.innerHeight)

(* A marker click near the bottom-right corner of a 1000x800 viewport.       *)
C5_Witness ==
    /\ lastEvent = "onMarkerClick"
    /\ window = [innerWidth |-> 1000, innerHeight |-> 800]
    /\ cardPosition = Some([x |-> 600, y |-> 484])

(* C6: with every filter field at its sentinel value the visible set is the  *)
(* whole collection, in collection order.                                    *)
AllSentinel(f) ==
    /\ f.searchTerm = <<>>
    /\ f.propertyType = "Semua"
    /\ f.buildingArea = Semua
    /\ f.landArea = Semua
    /\ f.priceSort = "Default"

C6_SentinelShowsAll == AllSentinel(filters) => filteredProperties = properties

(* The filters were changed and are back at their sentinels; the collection  *)
(* holds a property whose land area is 0.                                    *)
C6_Witness ==
    /\ lastEvent = "onFilterChange"
    /\ AllSentinel(filters)
    /\ Len(properties) = 3
    /\ \E i \in 1..3 : properties[i].landArea = 0

Index(p) == CHOOSE i \in 1..Len(properties) : properties[i] = p
Prices(props) == [i \in 1..Len(props) |-> props[i].price]

(* C7: ascending sort gives non-decreasing prices, descending sort           *)
(* non-increasing prices, equal prices keep their collection order, sorting  *)
(* what is sorted changes nothing, any other priceSort keeps the collection  *)
(* order; prices [100,50,75] ascending give [50,75,100].                     *)
C7_PriceSort ==
    LET fp == filteredProperties
        pairs == {<<i, j>> \in (1..Len(fp)) \X (1..Len(fp)) : i < j}
    IN /\ filters.priceSort = "Harga Terendah" =>
            \A ij \in pairs :
                /\ fp[ij[1]].price <= fp[ij[2]].price
                /\ fp[ij[1]].price = fp[ij[2]].price => Index(fp[ij[1]]) < Index(fp[ij[2]])
       /\ filters.priceSort = "Harga Tertinggi" =>
            \A ij \in pairs :
                /\ fp[ij[1]].price >= fp[ij[2]].price
                /\ fp[ij[1]].price = fp[ij[2]].price => Index(fp[ij[1]]) < Index(fp[ij[2]])
       /\ filters.priceSort \notin {"Harga Terendah", "Harga Tertinggi"} =>
            \A ij \in pairs : Index(fp[ij[1]]) < Index(fp[ij[2]])
       /\ sortedProperties(sortedProperties(properties, filters), filters)
            = sortedProperties(properties, filters)
       /\ filteredPropertiesMemo(fp, filters) = fp
       /\ (/\ Prices(properties) = <<100, 50, 75>>
           /\ AllSentinel([filters EXCEPT !.priceSort = "Default"])
           /\ filters.priceSort = "Harga Terendah") => Prices(fp) = <<50, 75, 100>>

(* Ascending sort moved a cheaper property forward and kept two properties   *)
(* of equal price in collection order.                                       *)
C7_Witness ==
    /\ lastEvent = "onFilterChange"
    /\ filters.priceSort = "Harga Terendah"
    /\ Len(filteredProperties) = 3
    /\ Prices(properties) = <<100, 50, 50>>
    /\ Prices(filteredProperties) = <<50, 50, 100>>

(* What a well-formed descriptor denotes.                                    *)
IsRange(desc, plus, ranges) ==
    \/ \E n \in plus : desc = PlusDesc(n)
    \/ \E r \in ranges : desc = RangeDesc(r[1], r[2])
Denotes(desc, area, plus, ranges) ==
    \/ \E n \in plus : desc = PlusDesc(n) /\ area >= n
    \/ \E r \in ranges : desc = RangeDesc(r[1], r[2]) /\ r[1] <= area /\ area <= r[2]

(* C8: a buildingArea descriptor 'N+' admits exactly the properties with     *)
(* buildingArea >= N and 'A-B' exactly those with A <= buildingArea <= B,    *)
(* among the properties the other filters admit; the same for landArea.      *)
C8_RangesInclusive ==
    \A p \in Range(properties) :
        /\ IsRange(filters.buildingArea, BuildingAreaPlus, BuildingAreaRanges) =>
              (p \in Range(filteredProperties) <=>
                  /\ searchTermMatch(p, filters)
                  /\ propertyTypeMatch(p, filters)
                  /\ landAreaMatch(p, filters)
                  /\ Denotes(filters.buildingArea, p.buildingArea,
                             BuildingAreaPlus, BuildingAreaRanges))
        /\ IsRange(filters.landArea, LandAreaPlus, LandAreaRanges) =>
              (p \in Range(filteredProperties) <=>
                  /\ searchTermMatch(p, filters)
                  /\ propertyTypeMatch(p, filters)
                  /\ buildingAreaMatch(p, filters)
                  /\ Denotes(filters.landArea, p.landArea, LandAreaPlus, LandAreaRanges))

(* buildingArea '100+': a property of 100 is shown, one of 99 is not.        *)
C8_Witness ==
    /\ lastEvent = "onFilterChange"
    /\ filters.buildingArea = PlusDesc(100)
    /\ \E p \in Range(filteredProperties) : p.buildingArea = 100
    /\ \E p \in Range(properties) :
          p.buildingArea = 99 /\ p \notin Range(filteredProperties)

(* C9: every selected identifier is the identifier of a property of the      *)
(* collection.                                                               *)
C9_SelectionWithinCollection == Range(selectedPropertyIds) \subseteq Ids(properties)

(* Two selected ids, one of an added property that the filters now hide.     *)
C9_Witness ==
    /\ Len(selectedPropertyIds) = 2
    /\ Len(properties) = 2
    /\ properties[1].id = "1"
    /\ properties[2].id = "101"
    /\ "101" \in Range(selectedPropertyIds)
    /\ "101" \notin Ids(filteredProperties)

(* The visible set is exactly the properties passing all four predicates,    *)
(* in the order of the sort step.                                            *)
ExactVisible ==
    LET sorted == sortedProperties(properties, filters)
        pos(p) == CHOOSE i \in 1..Len(sorted) : sorted[i] = p
        fp == filteredProperties
    IN /\ Range(fp) \subseteq Range(properties)
       /\ \A p \in Range(properties) :
             p \in Range(fp) <=> /\ searchTermMatch(p, filters)
                                 /\ propertyTypeMatch(p, filters)
                                 /\ buildingAreaMatch(p, filters)
                                 /\ landAreaMatch(p, filters)
       /\ \A i, j \in 1..Len(fp) : i < j => pos(fp[i]) < pos(fp[j])

(* C10: the visible set is determined by (collection, filters): exactly the  *)
(* properties passing search, type, building-area and land-area match, in    *)
(* the sort step's order; recomputing it leaves the collection as it was.    *)
C10_VisibleSetExact ==
    /\ ExactVisible
    /\ (probe # Null /\ lastEvent \in {"mount", "onFilterChange"}) =>
           properties = probe[1].collection

(* A recomputation that sorted and dropped some, not all, properties.        *)
C10_Witness ==
    /\ lastEvent = "onFilterChange"
    /\ filters.priceSort = "Harga Tertinggi"
    /\ Len(filteredProperties) = 2
    /\ Len(properties) = 3
    /\ filteredProperties[1].id # properties[1].id

(* C11: a filter-field change leaves the selection set as it was, contents  *)
(* and order, also when a selected property drops out of the visible set.    *)
C11_FilterKeepsSelection ==
    [][lastEvent' = "onFilterChange" => selectedPropertyIds' = selectedPropertyIds]_vars

(* After a filter change both properties are still selected, in the order    *)
(* they were selected in, and the first selected one is no longer visible.   *)
C11_Witness ==
    /\ lastEvent = "onFilterChange"
    /\ Len(properties) = 2
    /\ selectedPropertyIds = <<properties[2].id, properties[1].id>>
    /\ properties[1].id # properties[2].id
    /\ properties[2].id \notin Ids(filteredProperties)

(* C12 as stated: the add-drawer is open exactly when pending coordinates    *)
(* are captured.                                                             *)
C12_OpenIffCoords == isAddDrawerOpen <=> newPropertyCoords # Null

(* C12 amended: the workflow has three states, idle (drawer closed, no       *)
(* coordinates), pending-placement (drawer open, coordinates captured) and   *)
(* drawer open without coordinates; captured coordinates imply an open       *)
(* drawer, coordinates are captured only by a map background click, and the  *)
(* drawer opens without coordinates only from the header's add button.       *)
C12_WorkflowAmended ==
    [][/\ newPropertyCoords' # Null => isAddDrawerOpen'
       /\ (newPropertyCoords' # Null /\ newPropertyCoords' # newPropertyCoords)
             => lastEvent' = "onMapClick"
       /\ (~isAddDrawerOpen /\ isAddDrawerOpen')
             => \/ lastEvent' = "onMapClick" /\ newPropertyCoords' # Null
                \/ lastEvent' = "onAddPropertyClick" /\ newPropertyCoords' = Null]_vars

(* Pending-placement entered by a map click at (1, 2).                       *)
C12_Witness ==
    /\ lastEvent = "onMapClick"
    /\ isAddDrawerOpen
    /\ newPropertyCoords = Some([lat |-> 1, lng |-> 2])

(* C13: dismissing the add-drawer closes it and discards the captured        *)
(* coordinates, leaving collection, selection set and filters as they were;  *)
(* the collection changes only by a form submit.                             *)
C13_DismissDiscards ==
    [][/\ lastEvent' = "onDrawerDismiss" =>
             /\ ~isAddDrawerOpen'
             /\ newPropertyCoords' = Null
             /\ properties' = properties
             /\ selectedPropertyIds' = selectedPropertyIds
             /\ filters' = filters
       /\ properties' # properties => lastEvent' \in {"onSubmit", "onSubmitAtCoords"}]_vars

(* The drawer was dismissed in map view with a filter set.                   *)
C13_Witness ==
    /\ lastEvent = "onDrawerDismiss"
    /\ viewMode = "map"
    /\ ~isAddDrawerOpen
    /\ newPropertyCoords = Null
    /\ Len(properties) = 1
    /\ filters.propertyType = "Rumah"

(* C14: a marker click shows the floating card of the clicked property and  *)
(* sets its position, leaving the add-drawer flag, the pending coordinates   *)
(* and the collection as they were; a map background click clears the card;  *)
(* no single step both shows a card and opens the add-drawer.                *)
C14_ClickTargetsExclusive ==
    [][/\ lastEvent' = "onMarkerClick" =>
             /\ selectedPropertyForCard' # Null
             /\ selectedPropertyForCard'[1] \in Range(filteredProperties)
             /\ isAddDrawerOpen' = isAddDrawerOpen
             /\ newPropertyCoords' = newPropertyCoords
             /\ properties' = properties
       /\ lastEvent' = "onMapClick" => selectedPropertyForCard' = Null
       /\ ~(/\ selectedPropertyForCard' # Null
            /\ selectedPropertyForCard' # selectedPropertyForCard
            /\ ~isAddDrawerOpen /\ isAddDrawerOpen')]_vars

(* A marker click with pointer coordinates, the drawer closed.               *)
C14_Witness ==
    /\ lastEvent = "onMarkerClick"
    /\ selectedPropertyForCard # Null
    /\ cardPosition # Null
    /\ ~isAddDrawerOpen
    /\ newPropertyCoords = Null

(* C15: 'Bersihkan' empties the selection set and changes nothing else:      *)
(* hovered id, floating card, filters, collection and add-drawer state stay. *)
C15_ClearOnlySelection ==
    [][lastEvent' = "onClearClick" =>
          /\ selectedPropertyIds' = <<>>
          /\ hoveredPropertyId' = hoveredPropertyId
          /\ selectedPropertyForCard' = selectedPropertyForCard
          /\ cardPosition' = cardPosition
          /\ filters' = filters
          /\ properties' = properties
          /\ isAddDrawerOpen' = isAddDrawerOpen
          /\ newPropertyCoords' = newPropertyCoords
          /\ viewMode' = viewMode]_vars

(* The selection was cleared while a card was hovered, a filter was set and  *)
(* the add-drawer was open.                                                  *)
C15_Witness ==
    /\ lastEvent = "onClearClick"
    /\ selectedPropertyIds = <<>>
    /\ hoveredPropertyId # Null
    /\ filters.propertyType = "Rumah"
    /\ isAddDrawerOpen

(* C16: a filter-field change clears the floating card and changes only the  *)
(* fields it supplies, each to the supplied value.                           *)
C16_FilterChangePartial ==
    [][lastEvent' = "onFilterChange" =>
          /\ selectedPropertyForCard' = Null
          /\ DOMAIN filters' = DOMAIN filters
          /\ \E nf \in HeaderFilterChanges :
                \A k \in DOMAIN filters :
                    /\ k \in DOMAIN nf => filters'[k] = nf[k]
                    /\ k \notin DOMAIN nf => filters'[k] = filters[k]]_vars

(* Two changes of different fields, the later one keeping the earlier.       *)
C16_Witness ==
    /\ lastEvent = "onFilterChange"
    /\ filters.propertyType = "Rumah"
    /\ filters.buildingArea = Desc_100plus
    /\ filters.priceSort = "Harga Terendah"
    /\ filters.searchTerm = <<>>
    /\ selectedPropertyForCard = Null

(* C17: no identifier occurs twice in the selection set.                    *)
C17_SelectionHasNoRepeats ==
    \A i, j \in 1..Len(selectedPropertyIds) :
        i # j => selectedPropertyIds[i] # selectedPropertyIds[j]

(* One id left after a card was selected and deselected again next to it.    *)
C17_Witness ==
    /\ lastEvent = "onSelectionChange"
    /\ Len(properties) = 2
    /\ properties[1].id # properties[2].id
    /\ selectedPropertyIds = <<properties[2].id>>
    /\ hoveredPropertyId = Some(properties[1].id)

(* C18: whenever a floating detail card is shown the view mode is map and    *)
(* the card's property is in the current visible set.                        *)
C18_CardIsVisibleProperty ==
    selectedPropertyForCard # Null =>
        /\ viewMode = "map"
        /\ selectedPropertyForCard[1] \in Range(filteredProperties)

(* A card shown while the filters hide another property of the collection.   *)
C18_Witness ==
    /\ selectedPropertyForCard # Null
    /\ lastEvent = "onMarkerClick"
    /\ Len(properties) = 2
    /\ Len(filteredProperties) = 1
    /\ filters.propertyType = "Rumah"

C20_ClosedDrawerHasNoCoords ==
    ~isAddDrawerOpen => newPropertyCoords = Null

(* The drawer opened from the header after an earlier map click was          *)
(* submitted.                                                                *)
C20_Witness ==
    /\ lastEvent = "onAddPropertyClick"
    /\ isAddDrawerOpen
    /\ newPropertyCoords = Null
    /\ Len(properties) = 2
    /\ properties[1].id = "1"
    /\ properties[2].coordinates = [lat |-> 1, lng |-> 2]

====
